---- MODULE Spec2Model ----
(***************************************************************************)
(* TradeChart: the RSI indicator (app/market_data.py compute_rsi), the     *)
(* long-only RSI backtest (app/backtest.py run_rsi_backtest) and the alert *)
(* run (scripts/rsi_alert.py run_alerts, check_ticker).                    *)
(*                                                                         *)
(* Floats are modelled by exact rationals [n, d] in lowest terms, d > 0.   *)
(* NaN and pd.NA are the one value NA (0/0); NaT is a date that is not ok. *)
(***************************************************************************)
EXTENDS Integers, Sequences, FiniteSets, TLC

\* ------------------------------------------------------------------
\* Bounds of the model
\* ------------------------------------------------------------------

\* Longest free tail appended to a warm-up shape of the input series.
MaxTail == 3

\* ------------------------------------------------------------------
\* Values
\* ------------------------------------------------------------------

\* NaN / pd.NA: the undefined float
NA == [n |-> 0, d |-> 0]

RECURSIVE GCD(_, _)
GCD(a, b) == IF b = 0 THEN a ELSE GCD(b, a % b)

Abs(x) == IF x < 0 THEN -x ELSE x

\* the rational n/d in lowest terms (d # 0)
Rat(n, d) ==
    LET g == GCD(Abs(n), Abs(d))
        s == IF d < 0 THEN -1 ELSE 1
    IN  [n |-> s * (n \div g), d |-> s * (d \div g)]

R(k) == [n |-> k, d |-> 1]
RatAdd(a, b) == Rat(a.n * b.d + b.n * a.d, a.d * b.d)
RatSub(a, b) == Rat(a.n * b.d - b.n * a.d, a.d * b.d)
RatMul(a, b) == Rat(a.n * b.n, a.d * b.d)
\* defined only for b # 0
RatDiv(a, b) == Rat(a.n * b.d, a.d * b.n)
RatLeq(a, b) == a.n * b.d <= b.n * a.d
RatIsZero(a) == a.n = 0

\* ------------------------------------------------------------------
\* app/market_data.py: compute_rsi
\* ------------------------------------------------------------------

\* period: int = 14
DefaultPeriod == 14

\* the first difference filled with zero instead of left undefined
Delta_fill(close, i) ==
    IF close[i] = NA THEN NA
    ELSE IF i = 1 THEN R(0)
    ELSE IF close[i - 1] = NA THEN NA
    ELSE RatSub(close[i], close[i - 1])

\* close.diff(): undefined for the first row and next to a NaN
Delta(close, i) ==
    IF i = 1 \/ close[i] = NA \/ close[i - 1] = NA
    THEN NA
    ELSE RatSub(close[i], close[i - 1])

\* delta.clip(lower=0)
Gain(close, i) ==
    LET dl == Delta(close, i)
    IN  IF dl = NA THEN NA ELSE IF dl.n > 0 THEN dl ELSE R(0)

\* -delta.clip(upper=0)
Loss(close, i) ==
    LET dl == Delta(close, i)
    IN  IF dl = NA THEN NA ELSE IF dl.n < 0 THEN RatSub(R(0), dl) ELSE R(0)

RECURSIVE SumRange(_, _, _)
SumRange(f, lo, hi) ==
    IF lo > hi THEN R(0) ELSE RatAdd(f[lo], SumRange(f, lo + 1, hi))

\* series.rolling(window=period, min_periods=period).mean() at row i:
\* defined once the trailing window holds period defined observations
RollingMean(s, i, period) ==
    IF i < period THEN NA
    ELSE IF \E j \in (i - period + 1)..i : s[j] = NA THEN NA
    ELSE RatDiv(SumRange(s, i - period + 1, i), R(period))

\* avg_loss.replace({0: pd.NA})
ReplaceZero(x) == IF x = NA THEN NA ELSE IF RatIsZero(x) THEN NA ELSE x

\* rs = avg_gain / avg_loss.replace({0: pd.NA}); rsi = 100 - (100 / (1 + rs))
RsiOf(avg_gain, avg_loss) ==
    LET den == ReplaceZero(avg_loss)
    IN  IF avg_gain = NA \/ den = NA THEN NA
        ELSE LET rs == RatDiv(avg_gain, den)
             IN  RatSub(R(100), RatDiv(R(100), RatAdd(R(1), rs)))

\* the RSI column of compute_rsi(price_df, period), close being the Close
\* column as floats (NA for a missing value)
compute_rsi(close, period) ==
    LET n == Len(close)
        gain == [i \in 1..n |-> Gain(close, i)]
        loss == [i \in 1..n |-> Loss(close, i)]
    IN  [i \in 1..n |->
            RsiOf(RollingMean(gain, i, period), RollingMean(loss, i, period))]

\* One call compute_rsi(price_df, period) on a frame with a Close column:
\* rsi_close is that column as floats, rsi_result the RSI column returned.
MaxPeriod == 3
MaxLen == 4

Periods == 1..MaxPeriod
CloseValues == {NA, R(1), R(2), R(3)}
CloseSeries == UNION {[1..n -> CloseValues] : n \in 0..MaxLen}

VARIABLES rsi_close, rsi_period, rsi_pc, rsi_result

rsvars == <<rsi_close, rsi_period, rsi_pc, rsi_result>>

RsiInit ==
    /\ rsi_close \in CloseSeries
    /\ rsi_period \in Periods
    /\ rsi_pc = "start"
    /\ rsi_result = <<>>

\* lines 32-48
ComputeRsi ==
    /\ rsi_pc = "start"
    /\ rsi_result' = compute_rsi(rsi_close, rsi_period)
    /\ rsi_pc' = "done"
    /\ UNCHANGED <<rsi_close, rsi_period>>

\* ------------------------------------------------------------------
\* Input price frames
\* ------------------------------------------------------------------

\* Warm-up shapes: 14 closes each, so that a tail row completes the first
\* 14-difference window.  Falling, rising, and a crash followed by a ramp.
WarmDown == <<17, 16, 15, 14, 13, 12, 11, 10, 9, 8, 7, 6, 5, 4>>
WarmUp == <<1, 2, 3, 4, 5, 6, 7, 8, 9, 10, 11, 12, 13, 14>>
WarmCrash == <<40, 1, 1, 1, 1, 1, 1, 1, 1, 1, 2, 3, 4, 5>>
WarmUps == {<<>>, WarmDown, WarmUp, WarmCrash}

\* A tail row moves the close up or down by one, sets it to zero, or is a
\* row whose close or whose date does not parse.
Moves == {"up", "down", "zero", "badclose", "baddate"}

RECURSIVE TupleSets(_, _)
TupleSets(S, n) ==
    IF n = 0 THEN {<<>>}
    ELSE LET shorter == TupleSets(S, n - 1)
         IN  shorter \cup
             {Append(t, m) : t \in {u \in shorter : Len(u) = n - 1}, m \in S}

Tails == TupleSets(Moves, MaxTail)

NextClose(prev, move) ==
    CASE move = "up" -> prev + 1
      [] move = "down" -> IF prev > 0 THEN prev - 1 ELSE 0
      [] move = "zero" -> 0
      [] OTHER -> prev

\* a raw cell: a number, a text that does not parse, or a missing value
Cell(v) == [kind |-> "num", value |-> v]
BadCell == [kind |-> "text", value |-> 0]
NanCell == [kind |-> "nan", value |-> 0]

RECURSIVE TailRows(_, _, _)
TailRows(prev, date, moves) ==
    IF moves = <<>> THEN <<>>
    ELSE LET m == Head(moves)
             c == NextClose(prev, m)
             row == [Date |-> IF m = "baddate" THEN BadCell ELSE Cell(date),
                     Close |-> IF m = "badclose" THEN BadCell ELSE Cell(c)]
         IN  <<row>> \o TailRows(c, date + 1, Tail(moves))

FrameRows(warm, moves) ==
    LET n == Len(warm)
        start == IF n = 0 THEN 5 ELSE warm[n]
    IN  [k \in 1..n |-> [Date |-> Cell(k), Close |-> Cell(warm[k])]]
            \o TailRows(start, n + 1, moves)

Reverse(s) == [k \in 1..Len(s) |-> s[Len(s) + 1 - k]]

BothColumns == {"Date", "Close"}

\* the frames run_rsi_backtest is given: absent, lacking a column, or rows
\* in ascending or descending date order
Frame(cols, rows) == [kind |-> "frame", columns |-> cols, rows |-> rows]
NoFrame == [kind |-> "none", columns |-> {}, rows |-> <<>>]

InputFrames ==
    {NoFrame}
    \cup {Frame(cols, FrameRows(<<>>, <<"up">>)) : cols \in {{"Date"}, {"Close"}}}
    \cup {Frame(BothColumns, FrameRows(w, t)) : w \in WarmUps, t \in Tails}
    \cup {Frame(BothColumns, Reverse(FrameRows(w, t))) :
            w \in WarmUps, t \in {u \in Tails : Len(u) = MaxTail}}

BuyLevels == {30, 70}
SellLevels == {45, 70}

\* ------------------------------------------------------------------
\* app/backtest.py: run_rsi_backtest
\* ------------------------------------------------------------------

VARIABLES price_df, buy_rsi, sell_rsi, pc, enriched, idx,
          cash, shares, has_position, trade_count, equity_values, result

btvars == <<price_df, buy_rsi, sell_rsi, pc, enriched, idx,
            cash, shares, has_position, trade_count, equity_values, result>>

\* NaT: the undefined date
NaT == [ok |-> FALSE, day |-> 0]

\* pd.to_datetime(df["Date"], errors="coerce")
ToDatetime(cell) ==
    IF cell.kind = "num" THEN [ok |-> TRUE, day |-> cell.value] ELSE NaT

\* pd.to_numeric(df["Close"], errors="coerce")
ToNumeric(cell) == IF cell.kind = "num" THEN R(cell.value) ELSE NA

\* df.dropna(subset=["Date", "Close"])
DropNa(rows) == SelectSeq(rows, LAMBDA r : r.Date # NaT /\ r.Close # NA)

RECURSIVE InsertByDate(_, _)
InsertByDate(r, sorted) ==
    IF sorted = <<>> THEN <<r>>
    ELSE IF r.Date.day < Head(sorted).Date.day THEN <<r>> \o sorted
    ELSE <<Head(sorted)>> \o InsertByDate(r, Tail(sorted))

\* the rows left in the order they came in
SortByDate_unsorted(rows) == rows

\* df.sort_values("Date")
RECURSIVE SortByDate(_)
SortByDate(rows) ==
    IF rows = <<>> THEN <<>>
    ELSE InsertByDate(Head(rows), SortByDate(Tail(rows)))

\* lines 38-45: the cleaned frame
Cleaned(df) ==
    LET coerced == [k \in 1..Len(df.rows) |->
                       [Date |-> ToDatetime(df.rows[k].Date),
                        Close |-> ToNumeric(df.rows[k].Close)]]
    IN  SortByDate(DropNa(coerced))

\* compute_rsi(df): the frame with its RSI column
Annotate(df) ==
    LET rsi == compute_rsi([k \in 1..Len(df) |-> df[k].Close], DefaultPeriod)
    IN  [k \in 1..Len(df) |->
            [Date |-> df[k].Date, Close |-> df[k].Close, RSI |-> rsi[k]]]

\* compute_rsi(df).dropna(subset=["RSI"])
Enriched(df) == SelectSeq(Annotate(df), LAMBDA r : r.RSI # NA)

\* lines 33-49: the frame cannot be evaluated
Absent(df) ==
    \/ df.kind = "none"
    \/ df.rows = <<>>
    \/ ~(BothColumns \subseteq df.columns)
    \/ Cleaned(df) = <<>>
    \/ Len(Enriched(Cleaned(df))) < 2

NoResult == [kind |-> "none"]

BacktestInit ==
    /\ price_df \in InputFrames
    /\ buy_rsi \in BuyLevels
    /\ sell_rsi \in SellLevels
    /\ pc = "start"
    /\ enriched = <<>>
    /\ idx = 0
    /\ cash = R(0)
    /\ shares = R(0)
    /\ has_position = FALSE
    /\ trade_count = 0
    /\ equity_values = <<>>
    /\ result = NoResult

\* lines 33-55: validation, cleaning, annotation, initial simulation state
Prepare ==
    /\ pc = "start"
    /\ IF Absent(price_df)
       THEN /\ pc' = "done"
            /\ result' = NoResult
            /\ UNCHANGED <<enriched, idx, cash, shares>>
       ELSE /\ pc' = "replay"
            /\ enriched' = Enriched(Cleaned(price_df))
            /\ idx' = 1
            /\ cash' = R(1)
            /\ shares' = R(0)
            /\ UNCHANGED result
    /\ UNCHANGED <<price_df, buy_rsi, sell_rsi, has_position, trade_count,
                   equity_values>>

BuySignal(row) == (~has_position) /\ RatLeq(row.RSI, R(buy_rsi))
SellSignal(row) == has_position /\ RatLeq(R(sell_rsi), row.RSI)

\* lines 57-72: one row of the replay
ReplayRow ==
    /\ pc = "replay"
    /\ idx <= Len(enriched)
    /\ LET row == enriched[idx]
           close_price == row.Close
       IN  IF BuySignal(row)
           THEN IF RatIsZero(close_price)
                THEN \* cash / close_price raises ZeroDivisionError
                     /\ pc' = "raised"
                     /\ UNCHANGED <<idx, cash, shares, has_position,
                                    trade_count, equity_values>>
                ELSE /\ shares' = RatDiv(cash, close_price)
                     /\ cash' = R(0)
                     /\ has_position' = TRUE
                     /\ trade_count' = trade_count + 1
                     /\ equity_values' =
                            Append(equity_values,
                                   RatAdd(cash', RatMul(shares', close_price)))
                     /\ idx' = idx + 1
                     /\ UNCHANGED pc
           ELSE IF SellSignal(row)
           THEN /\ cash' = RatMul(shares, close_price)
                /\ shares' = R(0)
                /\ has_position' = FALSE
                /\ trade_count' = trade_count + 1
                /\ equity_values' =
                       Append(equity_values,
                              RatAdd(cash', RatMul(shares', close_price)))
                /\ idx' = idx + 1
                /\ UNCHANGED pc
           ELSE /\ equity_values' =
                       Append(equity_values,
                              RatAdd(cash, RatMul(shares, close_price)))
                /\ idx' = idx + 1
                /\ UNCHANGED <<pc, cash, shares, has_position, trade_count>>
    /\ UNCHANGED <<price_df, buy_rsi, sell_rsi, enriched, result>>

\* lines 74-95: the returns and the result
Finish ==
    /\ pc = "replay"
    /\ idx > Len(enriched)
    /\ LET n == Len(enriched)
           first_close == enriched[1].Close
           last_close == enriched[n].Close
       IN  IF RatIsZero(first_close)
           THEN \* last_close / first_close raises ZeroDivisionError
                /\ pc' = "raised"
                /\ UNCHANGED result
           ELSE /\ pc' = "done"
                /\ result' =
                     [kind |-> "result",
                      strategy_return |-> RatSub(equity_values[n], R(1)),
                      buy_hold_return |->
                          RatSub(RatDiv(last_close, first_close), R(1)),
                      trades |-> trade_count,
                      latest_rsi |-> enriched[n].RSI,
                      start_date |-> enriched[1].Date,
                      end_date |-> enriched[n].Date,
                      equity_curve |->
                          [k \in 1..n |-> [Date |-> enriched[k].Date,
                                           Equity |-> equity_values[k]]]]
    /\ UNCHANGED <<price_df, buy_rsi, sell_rsi, enriched, idx, cash, shares,
                   has_position, trade_count, equity_values>>


\* ------------------------------------------------------------------
\* scripts/rsi_alert.py: run_alerts, check_ticker
\* ------------------------------------------------------------------

\* Longest list of persisted alert definitions.
MaxAlerts == 2

\* AppConfig.rsi_alert_threshold
rsi_alert_threshold == 40

\* ticker texts in Python's string order
TickerOrder == <<"", "MU", "NVDA", "mu">>
TickerTexts == {"", "mu", "NVDA"}

\* str.upper()
Upper(t) == IF t = "mu" THEN "MU" ELSE t

\* sorted(S) for a set of ticker texts
Sorted(S) == SelectSeq(TickerOrder, LAMBDA t : t \in S)

\* a persisted threshold: a number, no value (None), or a text that is no number
Num(v) == [kind |-> "num", value |-> v]
MissingThreshold == [kind |-> "none", value |-> 0]
TextThreshold == [kind |-> "text", value |-> 0]
ThresholdCells == {Num(30), Num(50), MissingThreshold, TextThreshold}

AlertDefs == [ticker : TickerTexts, threshold : ThresholdCells]
AlertLists == TupleSets(AlertDefs, MaxAlerts)
CallerTickers == {<<"NVDA">>, <<"mu", "MU">>}

\* what download_price_history gives check_ticker: an exception, or a frame
\* sorted by date whose Close cells are what the provider sent
FetchError == [kind |-> "error", columns |-> {}, rows |-> <<>>]
DatedRows(cells) == [k \in 1..Len(cells) |-> [Date |-> Cell(k), Close |-> cells[k]]]
NumCells(closes) == [k \in 1..Len(closes) |-> Cell(closes[k])]
Rsi40Closes == <<10, 9, 8, 7, 6, 5, 4, 5, 6, 7, 8, 8, 8, 8, 8>>
Rsi45Closes == <<10, 9, 8, 7, 6, 5, 4, 5, 6, 7, 8, 8, 8, 8, 9>>
Feeds ==
    {FetchError,
     Frame(BothColumns, <<>>),
     Frame(BothColumns, DatedRows(NumCells(<<5, 6, 7>>))),
     Frame(BothColumns, DatedRows(NumCells(Rsi40Closes))),
     Frame(BothColumns, DatedRows(NumCells(Rsi45Closes))),
     Frame(BothColumns, DatedRows(NumCells(Rsi40Closes) \o <<NanCell>>)),
     Frame(BothColumns, DatedRows(NumCells(WarmUp \o <<15>>))),
     Frame(BothColumns, DatedRows([k \in 1..15 |-> BadCell]))}

VARIABLES alerts, tickers, configured, apc, alert_map, todo, pos, matches,
          outbox, price_feed, error, checked

alvars == <<alerts, tickers, configured, apc, alert_map, todo, pos, matches,
            outbox, price_feed, error, checked>>

vars == <<btvars, alvars, rsvars>>

\* lines 83-89: the threshold of each upper-cased non-empty ticker
RECURSIVE BuildAlertMap(_, _)
BuildAlertMap(defs, m) ==
    IF defs = <<>> THEN m
    ELSE LET ticker == Upper(Head(defs).ticker)
         IN  BuildAlertMap(Tail(defs),
                           IF ticker # ""
                           THEN (ticker :> Head(defs).threshold) @@ m
                           ELSE m)

EmptyMap == [t \in {} |-> Num(0)]

Range(s) == {s[k] : k \in DOMAIN s}

\* lines 81-92: the tickers the run evaluates
ResolveTickers(defs, given) ==
    IF defs # <<>>
    THEN Sorted(DOMAIN BuildAlertMap(defs, EmptyMap))
    ELSE Sorted(Range(given))

AlertInit ==
    /\ alerts \in AlertLists
    /\ tickers \in CallerTickers
    /\ configured \in BOOLEAN
    /\ apc = "start"
    /\ alert_map = EmptyMap
    /\ todo = <<>>
    /\ pos = 0
    /\ matches = <<>>
    /\ outbox = <<>>
    /\ price_feed = NoFrame
    /\ error = "none"
    /\ checked = <<>>

\* lines 81-106: alert definitions, tickers, configuration, notifier
Resolve ==
    /\ apc = "start"
    /\ alert_map' = IF alerts # <<>> THEN BuildAlertMap(alerts, EmptyMap)
                    ELSE EmptyMap
    /\ todo' = ResolveTickers(alerts, tickers)
    /\ IF configured
       THEN apc' = "loop" /\ pos' = 1
       ELSE \* sys.exit(1)
            apc' = "exit" /\ UNCHANGED pos
    /\ UNCHANGED <<alerts, tickers, configured, matches, outbox, price_feed,
                   error, checked>>

\* alert_map.get(ticker.upper(), config.rsi_alert_threshold)
ThresholdFor(m, ticker) ==
    IF Upper(ticker) \in DOMAIN m THEN m[Upper(ticker)]
    ELSE Num(rsi_alert_threshold)

\* result["Close"].astype(float) raises on a text that is no number
CanCastFloat(rows) == \A k \in DOMAIN rows : rows[k].Close.kind # "text"
AsFloat(cell) == IF cell.kind = "num" THEN R(cell.value) ELSE NA

\* lines 31-32: the rows of compute_rsi(price_df) with a defined RSI
LatestRows(rows) ==
    LET rsi == compute_rsi([k \in 1..Len(rows) |-> AsFloat(rows[k].Close)],
                           DefaultPeriod)
        annotated == [k \in 1..Len(rows) |->
                         [Date |-> rows[k].Date.value, RSI |-> rsi[k]]]
    IN  SelectSeq(annotated, LAMBDA r : r.RSI # NA)

\* the comparison with the boundary left out
Matches_strict(rsi_value, threshold) == ~RatLeq(threshold, rsi_value)

\* line 40: rsi_value <= threshold
Matches(rsi_value, threshold) == RatLeq(rsi_value, threshold)

\* lines 107-111 with check_ticker (lines 25-50): one ticker of the run
CheckTicker ==
    /\ apc = "loop"
    /\ pos <= Len(todo)
    /\ LET ticker == todo[pos]
           cell == ThresholdFor(alert_map, ticker)
       IN  IF cell.kind # "num"
           THEN \* float(threshold) raises TypeError / ValueError
                /\ apc' = "raised"
                /\ error' = "threshold"
                /\ UNCHANGED <<pos, matches, price_feed, checked>>
           ELSE \E feed \in Feeds :
                /\ price_feed' = feed
                /\ checked' = Append(checked, Upper(ticker))
                /\ IF feed.kind = "error"
                   THEN \* download_price_history raises
                        /\ apc' = "raised"
                        /\ error' = "fetch"
                        /\ UNCHANGED <<pos, matches>>
                   ELSE IF feed.rows = <<>>
                   THEN /\ pos' = pos + 1
                        /\ UNCHANGED <<apc, error, matches>>
                   ELSE IF ~CanCastFloat(feed.rows)
                   THEN /\ apc' = "raised"
                        /\ error' = "astype"
                        /\ UNCHANGED <<pos, matches>>
                   ELSE LET latest == LatestRows(feed.rows)
                            row == latest[Len(latest)]
                        IN  /\ pos' = pos + 1
                            /\ UNCHANGED <<apc, error>>
                            /\ IF latest # <<>>
                                  /\ Matches(row.RSI, R(cell.value))
                               THEN matches' =
                                      Append(matches,
                                             [ticker |-> Upper(ticker),
                                              rsi |-> row.RSI,
                                              threshold |-> R(cell.value),
                                              date |-> row.Date])
                               ELSE UNCHANGED matches
    /\ UNCHANGED <<alerts, tickers, configured, alert_map, todo, outbox>>

\* notifier.send(message): the message is handed to the delivery service
Send(box, message) == Append(box, message)

\* lines 113-118: one message for all matches, or none
Notify ==
    /\ apc = "loop"
    /\ pos > Len(todo)
    /\ apc' = "done"
    /\ outbox' = IF matches # <<>> THEN Send(outbox, matches) ELSE outbox
    /\ UNCHANGED <<alerts, tickers, configured, alert_map, todo, pos, matches,
                   price_feed, error, checked>>

\* ------------------------------------------------------------------
\* Specifications
\* ------------------------------------------------------------------

BacktestIdle ==
    /\ price_df = NoFrame
    /\ buy_rsi = 0
    /\ sell_rsi = 0
    /\ pc = "idle"
    /\ enriched = <<>>
    /\ idx = 0
    /\ cash = R(0)
    /\ shares = R(0)
    /\ has_position = FALSE
    /\ trade_count = 0
    /\ equity_values = <<>>
    /\ result = NoResult

AlertIdle ==
    /\ alerts = <<>>
    /\ tickers = <<>>
    /\ configured = FALSE
    /\ apc = "idle"
    /\ alert_map = EmptyMap
    /\ todo = <<>>
    /\ pos = 0
    /\ matches = <<>>
    /\ outbox = <<>>
    /\ price_feed = NoFrame
    /\ error = "none"
    /\ checked = <<>>

RsiIdle ==
    /\ rsi_close = <<>>
    /\ rsi_period = DefaultPeriod
    /\ rsi_pc = "idle"
    /\ rsi_result = <<>>

\* one call of run_rsi_backtest
Init == BacktestInit /\ AlertIdle /\ RsiIdle
Next ==
    \/ Prepare /\ UNCHANGED <<alvars, rsvars>>
    \/ ReplayRow /\ UNCHANGED <<alvars, rsvars>>
    \/ Finish /\ UNCHANGED <<alvars, rsvars>>
Spec == Init /\ [][Next]_vars

\* one call of run_alerts
AlertsInit == AlertInit /\ BacktestIdle /\ RsiIdle
AlertsNext ==
    \/ Resolve /\ UNCHANGED <<btvars, rsvars>>
    \/ CheckTicker /\ UNCHANGED <<btvars, rsvars>>
    \/ Notify /\ UNCHANGED <<btvars, rsvars>>
AlertSpec == AlertsInit /\ [][AlertsNext]_vars

\* one call of compute_rsi with a period of the caller's choice
RsiCallInit == RsiInit /\ BacktestIdle /\ AlertIdle
RsiCallNext == ComputeRsi /\ UNCHANGED <<btvars, alvars>>
RsiSpec == RsiCallInit /\ [][RsiCallNext]_vars

\* ------------------------------------------------------------------
\* Claims about run_rsi_backtest and compute_rsi (under Spec)
\* ------------------------------------------------------------------

IsZero(x) == x = R(0)
Entered == pc \in {"replay", "done", "raised"}

\* C1: during a replay, after every processed row exactly one of cash and
\* shares is nonzero: never both nonzero, and never both zero once a trade
\* has been made.
C1_CashXorShares ==
    Entered =>
        /\ ~(~IsZero(cash) /\ ~IsZero(shares))
        /\ (trade_count > 0 => ~(IsZero(cash) /\ IsZero(shares)))

\* what the replay of the row at idx does, as the claim states it
C2_RowStep ==
    (pc = "replay" /\ idx <= Len(enriched)) =>
        LET row == enriched[idx]
        IN  /\ IF (~has_position) /\ RatLeq(row.RSI, R(buy_rsi))
               THEN /\ ~IsZero(row.Close)
                    /\ shares' = RatDiv(cash, row.Close)
                    /\ cash' = R(0)
                    /\ has_position' = TRUE
                    /\ trade_count' = trade_count + 1
               ELSE IF has_position /\ RatLeq(R(sell_rsi), row.RSI)
               THEN /\ cash' = RatMul(shares, row.Close)
                    /\ shares' = R(0)
                    /\ has_position' = FALSE
                    /\ trade_count' = trade_count + 1
               ELSE UNCHANGED <<cash, shares, has_position, trade_count>>
            /\ equity_values' =
                   Append(equity_values,
                          RatAdd(cash', RatMul(shares', row.Close)))
            /\ idx' = idx + 1

\* C2: every row that is replayed makes at most one trade, decided before
\* the row's equity is recorded: a buy when not holding and rsi <= buy_rsi,
\* else a sell when holding and rsi >= sell_rsi, else nothing changes; and the
\* row's equity is then appended.
C2_OneTradePerRow == [][C2_RowStep]_vars

\* the rows whose trailing window of period differences is full and holds
\* no negative difference
ZeroLossRows(close, period) ==
    {k \in (period + 1)..Len(close) :
        \A j \in (k - period + 1)..k : RatLeq(close[j - 1], close[j])}

CleanCloses == LET df == Cleaned(price_df) IN [k \in 1..Len(df) |-> df[k].Close]

\* C3: a row whose trailing window holds no loss (average loss exactly zero)
\* has RSI = 100, not an undefined value.
C3_ZeroLossIs100 ==
    (Entered /\ BothColumns \subseteq price_df.columns) =>
        \A k \in ZeroLossRows(CleanCloses, DefaultPeriod) :
            compute_rsi(CleanCloses, DefaultPeriod)[k] = R(100)

\* the conditions under which the claim says the result is absent
TooFewRows(df) ==
    \/ df.kind = "none"
    \/ df.rows = <<>>
    \/ ~(BothColumns \subseteq df.columns)
    \/ Len(Cleaned(df)) < 2
    \/ Cardinality({k \in 1..Len(Cleaned(df)) :
                       Annotate(Cleaned(df))[k].RSI # NA}) < 2

\* C8: run_rsi_backtest ends by returning the absent result exactly when the
\* frame is missing or empty, lacks Date or Close, has fewer than 2 usable
\* rows, or has fewer than 2 rows with a defined RSI; otherwise it ends by
\* returning a result.
C8_AbsentOrResult ==
    (pc \in {"done", "raised"}) =>
        IF TooFewRows(price_df)
        THEN pc = "done" /\ result.kind = "none"
        ELSE pc = "done" /\ result.kind = "result"

\* C9: whatever the data of the price series, run_rsi_backtest (and
\* compute_rsi in it) never raises.
C9_NeverRaises == pc # "raised"

\* the rows of the annotated series that carry a defined RSI
DefinedRows == SelectSeq(Annotate(Cleaned(price_df)), LAMBDA r : r.RSI # NA)

C10_Replaying ==
    (pc = "replay" /\ idx > 1) =>
        /\ Len(equity_values) = idx - 1
        /\ equity_values[idx - 1] =
               RatAdd(cash, RatMul(shares, DefinedRows[idx - 1].Close))

C10_Returned ==
    (pc = "done" /\ result.kind = "result") =>
        LET curve == result.equity_curve
        IN  /\ Len(curve) = Len(DefinedRows)
            /\ \A k \in 1..Len(curve) :
                   /\ curve[k].Date = DefinedRows[k].Date
                   /\ curve[k].Equity = equity_values[k]
            /\ \A k \in 1..(Len(curve) - 1) :
                   curve[k].Date.day < curve[k + 1].Date.day

\* C10: the returned equity curve has one (date, equity) entry per row with
\* a defined RSI, in ascending date order, and each entry is
\* cash + shares * close of its row as they stand after the row's signal check.
C10_EquityCurve == C10_Replaying /\ C10_Returned

C10_Witness ==
    /\ pc = "done"
    /\ result.kind = "result"
    /\ Len(result.equity_curve) = 3
    /\ result.trades = 2
    /\ Len(price_df.rows) > Len(result.equity_curve)
    /\ price_df.rows[1].Date.value > price_df.rows[2].Date.value

C11_Step ==
    (pc = "replay" /\ pc' = "done") =>
        /\ UNCHANGED <<cash, shares, has_position, trade_count>>
        /\ result'.trades = trade_count
        /\ IF has_position
           THEN /\ ~IsZero(shares)
                /\ result'.strategy_return =
                     RatSub(RatMul(shares, enriched[Len(enriched)].Close),
                            R(1))
           ELSE result'.strategy_return = RatSub(cash, R(1))

\* C11: the replay never force-closes a position at the end: the step that
\* returns the result leaves cash, shares, has_position and trade_count as
\* the last row left them and reports that trade_count; when it ends holding,
\* shares is nonzero and strategy_return = shares * last close - 1, and when
\* it ends in cash, strategy_return = cash - 1.
C11_NoForcedClose == [][C11_Step]_vars

Odd(n) == n % 2 = 1

\* rows of the replay processed so far
RowsProcessed == IF pc = "replay" THEN idx - 1 ELSE Len(equity_values)

C14_State ==
    Entered =>
        /\ has_position <=> Odd(trade_count)
        /\ has_position <=> ~IsZero(shares)
        /\ trade_count <= RowsProcessed

C14_Step ==
    (Entered /\ trade_count' # trade_count) =>
        /\ trade_count' = trade_count + 1
        /\ has_position' = ~has_position
        /\ has_position' <=> Odd(trade_count')

\* C14: in every state of the replay has_position is true exactly when
\* trade_count is odd and exactly when shares is nonzero; trades alternate
\* buy, sell, buy, ... starting with a buy (a trade with an odd number opens
\* the position, one with an even number closes it), and trade_count never
\* exceeds the number of rows processed.
C14_PositionParity == []C14_State /\ [][C14_Step]_vars

\* ------------------------------------------------------------------
\* Claims about compute_rsi with any period (under RsiSpec)
\* ------------------------------------------------------------------

\* C13: for every period p >= 1 the RSI column has one value per row, its
\* first p rows are undefined, and so a series of fewer than p + 1 points
\* has no defined RSI at all.
C13_WarmUpUndefined ==
    rsi_pc = "done" =>
        /\ Len(rsi_result) = Len(rsi_close)
        /\ \A k \in 1..Len(rsi_result) :
              k <= rsi_period => rsi_result[k] = NA
        /\ Len(rsi_close) < rsi_period + 1 =>
              \A k \in 1..Len(rsi_result) : rsi_result[k] = NA

\* a series longer than the period whose first row past the warm-up has a
\* defined RSI, the rows before it having none
C13_Witness ==
    /\ rsi_pc = "done"
    /\ rsi_period > 1
    /\ Len(rsi_close) > rsi_period
    /\ rsi_result[rsi_period + 1] # NA
    /\ \A k \in 1..rsi_period : rsi_result[k] = NA

\* ------------------------------------------------------------------
\* Claims about run_alerts and check_ticker (under AlertSpec)
\* ------------------------------------------------------------------

\* a step in which check_ticker ran for the ticker at pos
Checked == apc = "loop" /\ checked' # checked

HasLatest(feed) ==
    /\ feed.kind = "frame"
    /\ feed.rows # <<>>
    /\ CanCastFloat(feed.rows)
    /\ LatestRows(feed.rows) # <<>>

LatestRsi(feed) == LET l == LatestRows(feed.rows) IN l[Len(l)].RSI

C4_Step ==
    (Checked /\ HasLatest(price_feed')) =>
        LET thr == R(ThresholdFor(alert_map, todo[pos]).value)
            rsi == LatestRsi(price_feed')
        IN  IF RatLeq(rsi, thr)
            THEN /\ Len(matches') = Len(matches) + 1
                 /\ matches'[Len(matches')].ticker = Upper(todo[pos])
                 /\ matches'[Len(matches')].rsi = rsi
            ELSE matches' = matches

\* C4: a ticker whose latest defined RSI is available is added to the
\* matches if and only if that RSI is at or below its threshold.
C4_MatchIffAtOrBelow == [][C4_Step]_vars

\* the first ticker matched with its RSI equal to the threshold, the second
\* had a defined RSI above it and was not added
C4_Witness ==
    /\ Len(checked) = 2
    /\ Len(matches) = 1
    /\ matches[1].ticker = checked[1]
    /\ matches[1].rsi = matches[1].threshold
    /\ HasLatest(price_feed)
    /\ ~RatLeq(LatestRsi(price_feed), matches[1].threshold)

\* C5: a fetch failure for one ticker does not abort the run: when the run
\* has ended, every ticker has been evaluated and the matches found have
\* been notified.
C5_FetchFailureIsolated ==
    (apc \in {"done", "raised"} /\ error = "fetch") =>
        /\ Len(checked) = Len(todo)
        /\ (matches # <<>> => Len(outbox) = 1)

\* empty, entirely unparseable, or without a defined RSI row
Unevaluable(feed) ==
    /\ feed.kind = "frame"
    /\ \/ feed.rows = <<>>
       \/ \A k \in DOMAIN feed.rows : feed.rows[k].Close.kind # "num"
       \/ (CanCastFloat(feed.rows) /\ LatestRows(feed.rows) = <<>>)

C6_Step ==
    (Checked /\ Unevaluable(price_feed')) =>
        /\ matches' = matches
        /\ apc' = "loop"
        /\ pos' = pos + 1

\* C6: a ticker whose price series is empty, entirely unparseable or without
\* a defined RSI row yields no match and no crash, and the run goes on to
\* the next ticker.
C6_UnevaluableSkipped == [][C6_Step]_vars

C7_Step ==
    (apc = "loop" /\ pos <= Len(todo)
        /\ ThresholdFor(alert_map, todo[pos]).kind # "num") =>
        /\ error' # "threshold"
        /\ checked' = Append(checked, Upper(todo[pos]))
        /\ (matches' # matches =>
                matches'[Len(matches')].threshold = R(rsi_alert_threshold))

\* C7: a ticker whose persisted threshold is missing or malformed is
\* evaluated against the global default threshold instead of failing.
C7_DefaultThresholdFallback == [][C7_Step]_vars

RunEnded == apc \in {"done", "raised", "exit"}

\* C12: all matches of a run go out in one message: send is called only
\* after every ticker has been evaluated, with all the matches of the run,
\* and a run that has ended called it exactly once when at least one ticker
\* matched and never when none matched.
C12_OneMessagePerRun ==
    /\ outbox # <<>> =>
          /\ apc = "done"
          /\ pos > Len(todo)
          /\ outbox = <<matches>>
    /\ RunEnded => (Len(outbox) = IF matches # <<>> THEN 1 ELSE 0)

\* the tickers the claim expects a run to evaluate, case folded
ExpectedTickers ==
    IF alerts # <<>>
    THEN {Upper(alerts[k].ticker) : k \in DOMAIN alerts} \ {""}
    ELSE {Upper(t) : t \in Range(tickers)}

\* position of a ticker text in Python's string order
OrderOf(t) == CHOOSE k \in DOMAIN TickerOrder : TickerOrder[k] = t

\* the threshold of the last definition that names ticker t
LastThreshold(t) ==
    LET named == {k \in DOMAIN alerts : Upper(alerts[k].ticker) = t}
        last == CHOOSE k \in named : \A j \in named : j <= k
    IN  alerts[last].threshold

C15_Thresholds ==
    /\ apc # "start" /\ alerts # <<>> =>
          \A t \in ExpectedTickers :
              ThresholdFor(alert_map, t) = LastThreshold(t)
    /\ alerts # <<>> =>
          \A k \in DOMAIN matches :
              matches[k].threshold = R(LastThreshold(matches[k].ticker).value)

\* C15: a run evaluates the upper-cased non-empty tickers of the alert
\* definitions when at least one definition is loaded (the caller's tickers
\* are ignored) and the caller's tickers when none is loaded: only those
\* tickers are evaluated, each at most once and in sorted order, all of them
\* by the time the run completes, and a ticker named by several definitions
\* is evaluated with the threshold of the last one.
C15_EvaluatedTickers ==
    /\ Range(checked) \subseteq ExpectedTickers
    /\ \A i, j \in DOMAIN checked :
          i < j => OrderOf(checked[i]) < OrderOf(checked[j])
    /\ apc = "done" => Range(checked) = ExpectedTickers
    /\ C15_Thresholds

====
